---- MODULE Spec2Model ----
(***************************************************************************)
(* s3-glob: GlobStream, a readable object stream over S3.listObjects that  *)
(* yields the entries whose keys match a set of minimatch globs.           *)
(*                                                                         *)
(* Strings are sequences of one-character strings, so that concatenation,  *)
(* charAt, split and join are computed and not assumed.                    *)
(***************************************************************************)
EXTENDS Integers, Sequences, FiniteSets, TLC

(***************************************************************************)
(* Bounds of the model.                                                    *)
(***************************************************************************)
MaxPulls == 2
MaxTruncated == 1
MaxSegments == 3

\* the sizes the consumer asks _read for
Sizes == -1..2

(***************************************************************************)
(* String helpers (JavaScript string and lodash array primitives).         *)
(***************************************************************************)
\* null / undefined: distinct from every string (a string holds one-character elements)
Null == <<"null">>

RECURSIVE IndexOf(_, _, _)
IndexOf(s, c, i) ==
  IF i > Len(s) THEN 0
  ELSE IF s[i] = c THEN i
  ELSE IndexOf(s, c, i + 1)

StartsWith(s, p) ==
  /\ Len(p) <= Len(s)
  /\ SubSeq(s, 1, Len(p)) = p

RECURSIVE Split(_, _)
Split(s, c) ==
  LET i == IndexOf(s, c, 1) IN
  IF i = 0 THEN <<s>>
  ELSE <<SubSeq(s, 1, i - 1)>> \o Split(SubSeq(s, i + 1, Len(s)), c)

RECURSIVE Join(_, _)
Join(parts, c) ==
  IF parts = <<>> THEN <<>>
  ELSE IF Len(parts) = 1 THEN parts[1]
  ELSE parts[1] \o <<c>> \o Join(Tail(parts), c)

RECURSIVE Flatten(_)
Flatten(ss) ==
  IF ss = <<>> THEN <<>> ELSE ss[1] \o Flatten(Tail(ss))

Last(s) == s[Len(s)]

(***************************************************************************)
(* Option objects are functions from field names to values.                *)
(***************************************************************************)
EmptyObj == [k \in {} |-> <<>>]

\* _.assign({ }, a, b): the fields of b win.
Assign(a, b) ==
  [k \in DOMAIN a \cup DOMAIN b |-> IF k \in DOMAIN b THEN b[k] ELSE a[k]]

\* _.defaults({ }, a, b): the fields of a win.
Defaults(a, b) == Assign(b, a)

\* _.pick(o, fields)
Pick(o, fields) == [k \in DOMAIN o \cap fields |-> o[k]]

\* _.isEmpty(o.k): the field is missing or the empty string.
IsEmptyField(o, k) == k \notin DOMAIN o \/ o[k] = <<>>

(***************************************************************************)
(* The glob engine (minimatch), for the fragment the patterns use: leading *)
(* '!' negation, one brace alternation, '/'-separated parts, '*' inside a  *)
(* part.  A part of a match set is a literal string or a compiled wildcard.*)
(***************************************************************************)
RECURSIVE ParseNegate(_)
ParseNegate(p) ==
  IF p # <<>> /\ p[1] = "!"
  THEN LET r == ParseNegate(Tail(p)) IN [negate |-> ~r.negate, body |-> r.body]
  ELSE [negate |-> FALSE, body |-> p]

BraceExpand(p) ==
  LET o == IndexOf(p, "{", 1)
      c == IndexOf(p, "}", 1)
  IN IF o = 0 \/ c < o THEN <<p>>
     ELSE LET pre == SubSeq(p, 1, o - 1)
              post == SubSeq(p, c + 1, Len(p))
              alts == Split(SubSeq(p, o + 1, c - 1), ",")
          IN [i \in 1..Len(alts) |-> pre \o alts[i] \o post]

ParsePart(part) ==
  [lit |-> IndexOf(part, "*", 1) = 0, text |-> part]

Minimatch(pattern) ==
  LET n == ParseNegate(pattern)
      branches == BraceExpand(n.body)
  IN [pattern |-> pattern,
      negate |-> n.negate,
      set |-> [i \in 1..Len(branches) |->
                 LET parts == Split(branches[i], "/")
                 IN [j \in 1..Len(parts) |-> ParsePart(parts[j])]]]

\* a part with '*' against one path segment: '*' stands for any run of characters
RECURSIVE StarMatch(_, _)
StarMatch(pat, s) ==
  IF pat = <<>> THEN s = <<>>
  ELSE IF pat[1] = "*"
       THEN \E k \in 0..Len(s) : StarMatch(Tail(pat), SubSeq(s, k + 1, Len(s)))
       ELSE s # <<>> /\ s[1] = pat[1] /\ StarMatch(Tail(pat), Tail(s))

PartMatch(part, seg) ==
  IF part.lit THEN seg = part.text
  ELSE seg # <<>> /\ StarMatch(part.text, seg)

MatchOne(file, branch) ==
  /\ Len(file) = Len(branch)
  /\ \A i \in 1..Len(branch) : PartMatch(branch[i], file[i])

\* Minimatch.prototype.match
MinimatchMatch(mm, key) ==
  LET file == Split(key, "/")
      hit == \E i \in 1..Len(mm.set) : MatchOne(file, mm.set[i])
  IN IF hit THEN ~mm.negate ELSE mm.negate

(***************************************************************************)
(* s3-url: urlToOptions.  s3://bucket/key gives Bucket and Key; a bare     *)
(* pattern gives only Key.                                                 *)
(***************************************************************************)
S3Scheme == <<"s", "3", ":", "/", "/">>

UrlToOptions(text) ==
  IF StartsWith(text, S3Scheme)
  THEN LET rest == SubSeq(text, Len(S3Scheme) + 1, Len(text))
           i == IndexOf(rest, "/", 1)
       IN IF i = 0 THEN [Bucket |-> rest, Key |-> <<>>]
          ELSE [Bucket |-> SubSeq(rest, 1, i - 1),
                Key |-> SubSeq(rest, i + 1, Len(rest))]
  ELSE [Key |-> text]

(***************************************************************************)
(* GlobStream: static members.                                             *)
(***************************************************************************)
formats == {"object", "query"}

allowedOptions == {"Bucket"}

\* _.takeWhile(set, _.isString): the leading run of literal parts
RECURSIVE TakeWhileIsString(_)
TakeWhileIsString(set) ==
  IF set = <<>> \/ ~set[1].lit THEN <<>>
  ELSE <<set[1].text>> \o TakeWhileIsString(Tail(set))

\* prefix joining every part of the set, the compiled wildcards too
prefixAllParts(set) == Join([j \in 1..Len(set) |-> set[j].text], "/")

\* prefix ending with the separator
prefixWithSlash(set) == Join(TakeWhileIsString(set), "/") \o <<"/">>

prefix(set) == Join(TakeWhileIsString(set), "/")

\* prefixes of the first set only
prefixesFirst(match) == <<prefix(match.set[1])>>

\* _.map(match.set, GlobStream.prefix)
prefixes(match) == [i \in 1..Len(match.set) |-> prefix(match.set[i])]

(***************************************************************************)
(* Constructor inputs.  A glob argument is a string, a plain object, an    *)
(* array of such, or something else (a number, a boolean).                 *)
(***************************************************************************)
Str(text) == [type |-> "string", text |-> text]

Obj(o) == [type |-> "object", obj |-> o]

Num == [type |-> "number"]

Arr(items) == [type |-> "array", items |-> items]

\* GlobStream.normalize (static): a single value becomes a one-element list
normalizeGlobs(globs) ==
  IF globs.type \in {"string", "object"} THEN [threw |-> FALSE, list |-> <<globs>>]
  ELSE IF globs.type # "array" THEN [threw |-> TRUE, list |-> <<>>]
  ELSE [threw |-> FALSE, list |-> globs.items]

\* the groupBy callback of the constructor
IsFilter(glob) == glob.type = "string" /\ glob.text # <<>> /\ glob.text[1] = "!"

RECURSIVE SelectFilter(_, _)
SelectFilter(list, want) ==
  IF list = <<>> THEN <<>>
  ELSE (IF IsFilter(list[1]) = want THEN <<list[1]>> ELSE <<>>)
       \o SelectFilter(Tail(list), want)

\* normalize testing the key alone
normalizeKeyOnly(awsOptions, glob) ==
  LET res == Assign(awsOptions,
                    IF glob.type = "string" THEN UrlToOptions(glob.text)
                    ELSE IF glob.type = "object" THEN glob.obj
                    ELSE EmptyObj)
  IN IF IsEmptyField(res, "Key") THEN [threw |-> TRUE, res |-> EmptyObj]
     ELSE [threw |-> FALSE, res |-> res]

\* GlobStream.prototype.normalize: the AWS parameters of one search glob
normalize(awsOptions, glob) ==
  LET res == Assign(awsOptions,
                    IF glob.type = "string" THEN UrlToOptions(glob.text)
                    ELSE IF glob.type = "object" THEN glob.obj
                    ELSE EmptyObj)
  IN IF IsEmptyField(res, "Key") THEN [threw |-> TRUE, res |-> EmptyObj]
     ELSE IF IsEmptyField(res, "Bucket") THEN [threw |-> TRUE, res |-> EmptyObj]
     ELSE [threw |-> FALSE, res |-> res]

\* one scan state for the glob, on its first prefix
statesOfFirstPrefix(awsOptions) ==
  LET match == Minimatch(awsOptions.Key)
  IN <<[match |-> match, awsOptions |-> awsOptions,
        prefix |-> prefixes(match)[1], marker |-> Null]>>

\* the scan states of one search glob: one per prefix of its match set
statesOf(awsOptions) ==
  LET match == Minimatch(awsOptions.Key)
      ps == prefixes(match)
  IN [i \in 1..Len(ps) |->
        [match |-> match, awsOptions |-> awsOptions, prefix |-> ps[i], marker |-> Null]]

Threw == [threw |-> TRUE, filters |-> <<>>, states |-> <<>>]

constructor(a) ==
  IF ~a.s3 THEN Threw
  ELSE IF a.format \notin formats THEN Threw
  ELSE LET n == normalizeGlobs(a.globs) IN
       IF n.threw THEN Threw
       ELSE LET fs == SelectFilter(n.list, TRUE)
                ss == SelectFilter(n.list, FALSE)
                norm == [i \in 1..Len(ss) |-> normalize(a.awsOptions, ss[i])]
            IN IF \E i \in 1..Len(ss) : norm[i].threw THEN Threw
               ELSE LET sts == Flatten([i \in 1..Len(ss) |-> statesOf(norm[i].res)])
                    IN IF Len(sts) = 0 THEN Threw
                       ELSE [threw |-> FALSE,
                             filters |-> [i \in 1..Len(fs) |-> Minimatch(fs[i].text)],
                             states |-> sts]

(***************************************************************************)
(* The object store behind s3.listObjects: the keys it may list, in        *)
(* listing (lexicographic) order, and the results one call may return.     *)
(***************************************************************************)
KeyList == << <<"a", "/", "b">>, <<"a", "/", "c">>, <<"b", "/", "c">> >>

Token == <<"m">>

Errors == {"aws-error"}

RECURSIVE SeqOfIdx(_)
SeqOfIdx(S) ==
  IF S = {} THEN <<>>
  ELSE LET m == CHOOSE x \in S : \A y \in S : x <= y
       IN <<KeyList[m]>> \o SeqOfIdx(S \ {m})

\* the pages a call may return: keys under the prefix, in order, at most MaxKeys
PagesFor(request) ==
  LET idx == {i \in 1..Len(KeyList) : StartsWith(KeyList[i], request.Prefix)}
  IN {SeqOfIdx(S) : S \in {T \in SUBSET idx : Cardinality(T) <= request.MaxKeys}}

\* every result a call may get
Results ==
  [Contents : {SeqOfIdx(S) : S \in SUBSET (1..Len(KeyList))},
   IsTruncated : BOOLEAN,
   NextMarker : {Null, Token}]

\* what a callback is given: (err) or (null, result)
NoResult == [Contents |-> <<>>, IsTruncated |-> FALSE, NextMarker |-> Null]

Failure(err) == [err |-> err, result |-> NoResult]

Success(result) == [err |-> "", result |-> result]

RECURSIVE NTruncated(_)
NTruncated(log) ==
  IF log = <<>> THEN 0
  ELSE (IF Head(log).result.IsTruncated THEN 1 ELSE 0) + NTruncated(Tail(log))

\* a truncated page holds a key or names the next marker (S3 never truncates
\* an empty listing), and the store serves MaxTruncated truncated pages at most
ResultsFor(request, ntr) ==
  {r \in Results :
     /\ r.Contents \in PagesFor(request)
     /\ IF r.IsTruncated
        THEN ntr < MaxTruncated /\ (r.Contents # <<>> \/ r.NextMarker # Null)
        ELSE r.NextMarker = Null}

(***************************************************************************)
(* The stream.                                                             *)
(***************************************************************************)
VARIABLES
  args,       \* the constructor's arguments
  status,     \* "new", "open" (constructed) or "threw" (the constructor threw)
  filters,    \* this.filters
  states,     \* this.states
  processed,  \* this.processed: the keys of the dedup index
  unique,     \* this.unique
  format,     \* this.format
  reading,    \* this._reading
  pending,    \* listObjects calls awaiting their callback
  cb,         \* the listObjects callback being run, and its position in result.Contents
  out,        \* the chunks pushed to the consumer, in order
  eos,        \* the number of push(null)
  errors,     \* the values emitted on 'error', in order
  calls,      \* the requests given to listObjects, in order, with the scan state of each
  delivered,  \* the entries handed to process, in order, with the scan state of each
  results,    \* what listObjects called back with, in order
  pulls,      \* the number of _read calls made by the consumer
  heldAt,     \* the number of callbacks run when the consumer last asked for more
              \* while this._reading was set (-1: never)
  scopes,     \* this.states as constructed
  demand      \* the size of the consumer's _read that started the last listing call,
              \* and the entries listed for it since

vars == <<args, status, filters, states, processed, unique, format, reading, pending,
          cb, out, eos, errors, calls, delivered, results, pulls, heldAt, scopes,
          demand>>

NoCb == [active |-> FALSE]

\* GlobStream.prototype.key
key(search, entry) == entry.Bucket \o <<"/">> \o entry.Key

\* hasProcessed looking the bare key up: the index holds bucket/key, so it never hits
hasProcessedByKey(search, entry) == entry.Key \in processed

\* GlobStream.prototype.hasProcessed
hasProcessed(search, entry) == key(search, entry) \in processed

\* match without the negative filters
matchGlobOnly(search, entry) == MinimatchMatch(search.match, entry.Key)

\* GlobStream.prototype.match
match(search, entry) ==
  /\ \A i \in 1..Len(filters) : MinimatchMatch(filters[i], entry.Key)
  /\ MinimatchMatch(search.match, entry.Key)

\* the request taking every parameter of the scan state
RequestOfAllOptions(state, size) ==
  Defaults([Prefix |-> state.prefix, Marker |-> state.marker, MaxKeys |-> size],
           state.awsOptions)

\* the request of _read for a scan state
RequestOf(state, size) ==
  Defaults([Prefix |-> state.prefix, Marker |-> state.marker, MaxKeys |-> size],
           Pick(state.awsOptions, allowedOptions))

\* _read without its lock: a call is started whenever there is demand
readNoLock(size, sts, rd) ==
  IF Len(sts) = 0
  THEN /\ eos' = eos + 1
       /\ reading' = rd
       /\ UNCHANGED <<pending, calls>>
  ELSE IF size <= 0
  THEN /\ reading' = rd
       /\ UNCHANGED <<pending, calls, eos>>
  ELSE LET request == RequestOf(Last(sts), size) IN
       /\ reading' = TRUE
       /\ pending' = Append(pending, [request |-> request, size |-> size,
                                      idx |-> Len(sts), search |-> Last(sts)])
       /\ calls' = Append(calls, [request |-> request, idx |-> Len(sts)])
       /\ eos' = eos

\* _read testing the demand before the empty list of states
readSizeFirst(size, sts, rd) ==
  IF rd
  THEN /\ reading' = rd
       /\ UNCHANGED <<pending, calls, eos>>
  ELSE IF size <= 0
  THEN /\ reading' = rd
       /\ UNCHANGED <<pending, calls, eos>>
  ELSE IF Len(sts) = 0
  THEN /\ eos' = eos + 1
       /\ reading' = rd
       /\ UNCHANGED <<pending, calls>>
  ELSE LET request == RequestOf(Last(sts), size) IN
       /\ reading' = TRUE
       /\ pending' = Append(pending, [request |-> request, size |-> size,
                                      idx |-> Len(sts), search |-> Last(sts)])
       /\ calls' = Append(calls, [request |-> request, idx |-> Len(sts)])
       /\ eos' = eos

\* _read going on when the size is zero
readZeroFetches(size, sts, rd) ==
  IF rd
  THEN /\ reading' = rd
       /\ UNCHANGED <<pending, calls, eos>>
  ELSE IF Len(sts) = 0
  THEN /\ eos' = eos + 1
       /\ reading' = rd
       /\ UNCHANGED <<pending, calls>>
  ELSE IF size < 0
  THEN /\ reading' = rd
       /\ UNCHANGED <<pending, calls, eos>>
  ELSE LET request == RequestOf(Last(sts), size) IN
       /\ reading' = TRUE
       /\ pending' = Append(pending, [request |-> request, size |-> size,
                                      idx |-> Len(sts), search |-> Last(sts)])
       /\ calls' = Append(calls, [request |-> request, idx |-> Len(sts)])
       /\ eos' = eos

\* _read taking the first of this.states
readFirstState(size, sts, rd) ==
  IF rd
  THEN /\ reading' = rd
       /\ UNCHANGED <<pending, calls, eos>>
  ELSE IF Len(sts) = 0
  THEN /\ eos' = eos + 1
       /\ reading' = rd
       /\ UNCHANGED <<pending, calls>>
  ELSE IF size <= 0
  THEN /\ reading' = rd
       /\ UNCHANGED <<pending, calls, eos>>
  ELSE LET request == RequestOf(Head(sts), size) IN
       /\ reading' = TRUE
       /\ pending' = Append(pending, [request |-> request, size |-> size,
                                      idx |-> 1, search |-> Head(sts)])
       /\ calls' = Append(calls, [request |-> request, idx |-> 1])
       /\ eos' = eos

\* _read adding the size asked for while locked to the call in flight
readAddsDemand(size, sts, rd) ==
  IF rd
  THEN /\ reading' = rd
       /\ pending' = [i \in 1..Len(pending) |-> [pending[i] EXCEPT !.size = @ + size]]
       /\ UNCHANGED <<calls, eos>>
  ELSE IF Len(sts) = 0
  THEN /\ eos' = eos + 1
       /\ reading' = rd
       /\ UNCHANGED <<pending, calls>>
  ELSE IF size <= 0
  THEN /\ reading' = rd
       /\ UNCHANGED <<pending, calls, eos>>
  ELSE LET request == RequestOf(Last(sts), size) IN
       /\ reading' = TRUE
       /\ pending' = Append(pending, [request |-> request, size |-> size,
                                      idx |-> Len(sts), search |-> Last(sts)])
       /\ calls' = Append(calls, [request |-> request, idx |-> Len(sts)])
       /\ eos' = eos

\* GlobStream.prototype._read(size), run with this.states = sts and this._reading = rd
read(size, sts, rd) ==
  IF rd
  THEN /\ reading' = rd
       /\ UNCHANGED <<pending, calls, eos>>
  ELSE IF Len(sts) = 0
  THEN /\ eos' = eos + 1
       /\ reading' = rd
       /\ UNCHANGED <<pending, calls>>
  ELSE IF size <= 0
  THEN /\ reading' = rd
       /\ UNCHANGED <<pending, calls, eos>>
  ELSE LET request == RequestOf(Last(sts), size) IN
       /\ reading' = TRUE
       /\ pending' = Append(pending, [request |-> request, size |-> size,
                                      idx |-> Len(sts), search |-> Last(sts)])
       /\ calls' = Append(calls, [request |-> request, idx |-> Len(sts)])
       /\ eos' = eos

\* the query format letting the pattern's Key win over the entry's
emitPatternKey(search, entry) ==
  IF format = "query"
  THEN /\ out' = Append(out, Assign([Key |-> entry.Key], search.awsOptions))
       /\ UNCHANGED errors
  ELSE IF format = "object"
  THEN /\ out' = Append(out, entry)
       /\ UNCHANGED errors
  ELSE /\ errors' = Append(errors, "UNKNOWN_FORMAT")
       /\ UNCHANGED out

\* the chunk put in front of the ones pushed before
emitFront(search, entry) ==
  IF format = "query"
  THEN /\ out' = <<Assign(search.awsOptions, [Key |-> entry.Key])>> \o out
       /\ UNCHANGED errors
  ELSE IF format = "object"
  THEN /\ out' = <<entry>> \o out
       /\ UNCHANGED errors
  ELSE /\ errors' = Append(errors, "UNKNOWN_FORMAT")
       /\ UNCHANGED out

\* the switch on this.format pushing the entry in its default case
emitDefaultObject(search, entry) ==
  IF format = "query"
  THEN /\ out' = Append(out, Assign(search.awsOptions, [Key |-> entry.Key]))
       /\ UNCHANGED errors
  ELSE /\ out' = Append(out, entry)
       /\ UNCHANGED errors

\* the switch on this.format of process
emit(search, entry) ==
  IF format = "query"
  THEN /\ out' = Append(out, Assign(search.awsOptions, [Key |-> entry.Key]))
       /\ UNCHANGED errors
  ELSE IF format = "object"
  THEN /\ out' = Append(out, entry)
       /\ UNCHANGED errors
  ELSE /\ errors' = Append(errors, "UNKNOWN_FORMAT")
       /\ UNCHANGED out

\* process consulting the dedup index whatever this.unique
processDedupAlways(search, entry) ==
  IF hasProcessed(search, entry)
  THEN UNCHANGED <<processed, out, errors>>
  ELSE /\ processed' = processed \cup {key(search, entry)}
       /\ IF match(search, entry)
          THEN emit(search, entry)
          ELSE UNCHANGED <<out, errors>>

\* process recording the key of the entries that match only
processMarkAfterMatch(search, entry) ==
  IF unique /\ hasProcessed(search, entry)
  THEN UNCHANGED <<processed, out, errors>>
  ELSE IF match(search, entry)
  THEN /\ processed' = processed \cup {key(search, entry)}
       /\ emit(search, entry)
  ELSE UNCHANGED <<processed, out, errors>>

\* process keeping the last key only in the index
processForgets(search, entry) ==
  IF unique /\ hasProcessed(search, entry)
  THEN UNCHANGED <<processed, out, errors>>
  ELSE /\ processed' = {key(search, entry)}
       /\ IF match(search, entry)
          THEN emit(search, entry)
          ELSE UNCHANGED <<out, errors>>

\* GlobStream.prototype.process(search, entry)
process(search, entry) ==
  IF unique /\ hasProcessed(search, entry)
  THEN UNCHANGED <<processed, out, errors>>
  ELSE /\ processed' = processed \cup {key(search, entry)}
       /\ IF match(search, entry)
          THEN emit(search, entry)
          ELSE UNCHANGED <<out, errors>>

(***************************************************************************)
(* Arguments the stream is constructed with.                               *)
(***************************************************************************)
BucketX == <<"x">>

BucketY == <<"y">>

PatA == <<"a", "/", "*">>

PatAB == <<"{", "a", ",", "b", "}", "/", "*">>

PatC == <<"*", "/", "c">>

PatB == <<"b", "/", "*">>

PatAC == <<"a", "/", "c", "*">>

NotAC == <<"!", "a", "/", "c">>

PatLit == <<"a", "/", "b">>

PatMid == <<"a", "/", "*", "/", "c">>

PatBraceStar == <<"{", "a", "/", "b", ",", "*", "}", "/", "c">>

Url(bucket, pattern) == S3Scheme \o bucket \o <<"/">> \o pattern

DefaultOptions == [Bucket |-> BucketX, Foo |-> <<"1">>]

GlobsSingle == Str(Url(BucketX, PatA))

GlobsTest == Arr(<<Str(Url(BucketX, PatAB)), Str(Url(BucketX, PatC)), Str(NotAC)>>)

GlobsTwoBuckets ==
  Arr(<<Obj([Bucket |-> BucketY, Key |-> PatB]), Str(Url(BucketX, PatC)), Str(NotAC)>>)

GlobsOverlap == Arr(<<Str(Url(BucketX, PatA)), Str(PatAC)>>)

Args(globs, awsOptions, fmt, uniq, s3) ==
  [globs |-> globs, awsOptions |-> awsOptions, format |-> fmt, unique |-> uniq, s3 |-> s3]

\* the streams that are run
RunArgs ==
  {Args(GlobsSingle, EmptyObj, "object", TRUE, TRUE),
   Args(GlobsTest, EmptyObj, "object", TRUE, TRUE),
   Args(GlobsOverlap, DefaultOptions, "query", FALSE, TRUE),
   Args(GlobsTwoBuckets, DefaultOptions, "query", TRUE, TRUE),
   Args(GlobsTwoBuckets, EmptyObj, "object", FALSE, TRUE)}

Start(a) ==
  /\ args = a
  /\ status = "new"
  /\ filters = <<>>
  /\ states = <<>>
  /\ processed = {}
  /\ unique = FALSE
  /\ format = ""
  /\ reading = FALSE
  /\ pending = <<>>
  /\ cb = NoCb
  /\ out = <<>>
  /\ eos = 0
  /\ errors = <<>>
  /\ calls = <<>>
  /\ delivered = <<>>
  /\ results = <<>>
  /\ pulls = 0
  /\ heldAt = -1
  /\ scopes = <<>>
  /\ demand = [asked |-> 0, got |-> 0]

Init == \E a \in RunArgs : Start(a)

\* the arguments the constructor is tried on
CtorGlobs ==
  {GlobsSingle, GlobsTest, GlobsTwoBuckets, GlobsOverlap,
   Str(PatC),
   Str(Url(BucketX, PatLit)),
   Str(Url(BucketY, PatMid)),
   Obj([Bucket |-> BucketX, Key |-> PatBraceStar]),
   Obj([Key |-> PatAB]),
   Obj([Bucket |-> BucketY, Key |-> PatAB]),
   Arr(<<Str(NotAC), Obj([Key |-> PatA]), Str(Url(BucketY, PatAB))>>),
   Arr(<<>>),
   Arr(<<Str(NotAC)>>),
   Str(NotAC),
   Num,
   Arr(<<Num>>),
   Arr(<<Str(Url(BucketX, PatA)), Obj([Bucket |-> BucketX, Key |-> <<>>])>>),
   Arr(<<Obj([Bucket |-> <<>>, Key |-> PatA])>>),
   Str(S3Scheme \o BucketX)}

CtorArgs ==
  [globs : CtorGlobs,
   awsOptions : {EmptyObj, DefaultOptions},
   format : formats \cup {"foo"},
   unique : BOOLEAN,
   s3 : BOOLEAN]

InitCtor == \E a \in CtorArgs : Start(a)

\* new GlobStream(globs, options)
Construct ==
  /\ status = "new"
  /\ LET c == constructor(args) IN
     IF c.threw
     THEN /\ status' = "threw"
          /\ UNCHANGED <<filters, states, unique, format, scopes>>
     ELSE /\ status' = "open"
          /\ filters' = c.filters
          /\ states' = c.states
          /\ scopes' = c.states
          /\ unique' = args.unique
          /\ format' = args.format
  /\ UNCHANGED <<args, processed, reading, pending, cb, out, eos, errors, calls,
                 delivered, results, pulls, heldAt, demand>>

\* the consumer (the readable machinery) calls _read(size)
Pull(size) ==
  /\ status = "open"
  /\ pulls < MaxPulls
  /\ pulls' = pulls + 1
  /\ heldAt' = IF reading /\ size > 0 THEN Len(results) ELSE heldAt
  /\ read(size, states, reading)
  /\ demand' = IF calls' # calls THEN [asked |-> size, got |-> 0] ELSE demand
  /\ UNCHANGED <<args, status, filters, states, processed, unique, format, cb, out,
                 errors, delivered, results, scopes>>

\* the error branch releasing the lock
ListFailUnlock(err) ==
  /\ ~cb.active
  /\ pending # <<>>
  /\ pending' = Tail(pending)
  /\ results' = Append(results, Failure(err))
  /\ errors' = Append(errors, err)
  /\ reading' = FALSE
  /\ UNCHANGED <<args, status, filters, states, processed, unique, format, cb,
                 out, eos, calls, delivered, pulls, heldAt, scopes, demand>>

\* the error branch giving up the scan state of the call
ListFailPops(err) ==
  /\ ~cb.active
  /\ pending # <<>>
  /\ pending' = Tail(pending)
  /\ results' = Append(results, Failure(err))
  /\ errors' = Append(errors, err)
  /\ states' = SubSeq(states, 1, Len(states) - 1)
  /\ UNCHANGED <<args, status, filters, processed, unique, format, reading, cb,
                 out, eos, calls, delivered, pulls, heldAt, scopes, demand>>

\* listObjects calls back with an error
ListFail(err) ==
  /\ ~cb.active
  /\ pending # <<>>
  /\ pending' = Tail(pending)
  /\ results' = Append(results, Failure(err))
  /\ errors' = Append(errors, err)
  /\ UNCHANGED <<args, status, filters, states, processed, unique, format, reading, cb,
                 out, eos, calls, delivered, pulls, heldAt, scopes, demand>>

\* listObjects calls back with a result: the callback starts on result.Contents
ListOk(result) ==
  /\ ~cb.active
  /\ pending # <<>>
  /\ result \in ResultsFor(Head(pending).request, NTruncated(results))
  /\ pending' = Tail(pending)
  /\ results' = Append(results, Success(result))
  /\ cb' = [active |-> TRUE, call |-> Head(pending), result |-> result, i |-> 1]
  /\ UNCHANGED <<args, status, filters, states, processed, unique, format, reading,
                 out, eos, errors, calls, delivered, pulls, heldAt, scopes, demand>>

\* one turn of the forEach over result.Contents
ProcessEntry ==
  /\ cb.active
  /\ cb.i <= Len(cb.result.Contents)
  /\ LET entry == [Key |-> cb.result.Contents[cb.i], Bucket |-> cb.call.request.Bucket]
     IN /\ process(cb.call.search, entry)
        /\ delivered' = Append(delivered, [entry |-> entry, idx |-> cb.call.idx])
  /\ cb' = [cb EXCEPT !.i = @ + 1]
  /\ UNCHANGED <<args, status, filters, states, unique, format, reading, pending, eos,
                 calls, results, pulls, heldAt, scopes, demand>>

\* the marker taken from result.NextMarker alone
NextMarkerOnly(result) == result.NextMarker

\* state.marker = result.NextMarker || _.last(result.Contents).Key
NextMarkerOf(result) ==
  IF result.NextMarker # Null /\ result.NextMarker # <<>> THEN result.NextMarker
  ELSE Last(result.Contents)

\* the pagination step removing the first scan state after a complete page
PaginateShift(sts, idx, result) ==
  IF result.IsTruncated
  THEN IF idx <= Len(sts) THEN [sts EXCEPT ![idx].marker = NextMarkerOf(result)] ELSE sts
  ELSE Tail(sts)

\* this.states after the callback's pagination step
Paginate(sts, idx, result) ==
  IF result.IsTruncated
  THEN IF idx <= Len(sts) THEN [sts EXCEPT ![idx].marker = NextMarkerOf(result)] ELSE sts
  ELSE SubSeq(sts, 1, Len(sts) - 1)

\* the callback reading on without unlocking
FinishLocked ==
  /\ cb.active
  /\ cb.i > Len(cb.result.Contents)
  /\ states' = Paginate(states, cb.call.idx, cb.result)
  /\ read(cb.call.size - Len(cb.result.Contents), states', reading)
  /\ cb' = NoCb
  /\ demand' = [demand EXCEPT !.got = @ + Len(cb.result.Contents)]
  /\ UNCHANGED <<args, status, filters, processed, unique, format, out, errors,
                 delivered, results, pulls, heldAt, scopes>>

\* the callback reading on for the whole size again
FinishFullDemand ==
  /\ cb.active
  /\ cb.i > Len(cb.result.Contents)
  /\ states' = Paginate(states, cb.call.idx, cb.result)
  /\ read(cb.call.size, states', FALSE)
  /\ cb' = NoCb
  /\ demand' = [demand EXCEPT !.got = @ + Len(cb.result.Contents)]
  /\ UNCHANGED <<args, status, filters, processed, unique, format, out, errors,
                 delivered, results, pulls, heldAt, scopes>>

\* the callback unlocking without reading on
FinishIdle ==
  /\ cb.active
  /\ cb.i > Len(cb.result.Contents)
  /\ states' = Paginate(states, cb.call.idx, cb.result)
  /\ reading' = FALSE
  /\ UNCHANGED <<pending, calls, eos>>
  /\ cb' = NoCb
  /\ demand' = [demand EXCEPT !.got = @ + Len(cb.result.Contents)]
  /\ UNCHANGED <<args, status, filters, processed, unique, format, out, errors,
                 delivered, results, pulls, heldAt, scopes>>

\* the callback returning after the forEach
FinishHeld ==
  /\ cb.active
  /\ cb.i > Len(cb.result.Contents)
  /\ cb' = NoCb
  /\ demand' = [demand EXCEPT !.got = @ + Len(cb.result.Contents)]
  /\ UNCHANGED <<args, status, filters, states, processed, unique, format, reading,
                 pending, out, eos, errors, calls, delivered, results, pulls, heldAt,
                 scopes>>

\* the rest of the callback: unlock, update the scan state, read on
Finish ==
  /\ cb.active
  /\ cb.i > Len(cb.result.Contents)
  /\ states' = Paginate(states, cb.call.idx, cb.result)
  /\ read(cb.call.size - Len(cb.result.Contents), states', FALSE)
  /\ cb' = NoCb
  /\ demand' = [demand EXCEPT !.got = @ + Len(cb.result.Contents)]
  /\ UNCHANGED <<args, status, filters, processed, unique, format, out, errors,
                 delivered, results, pulls, heldAt, scopes>>

Next ==
  \/ Construct
  \/ \E size \in Sizes : Pull(size)
  \/ \E err \in Errors : ListFail(err)
  \/ \E result \in Results : ListOk(result)
  \/ ProcessEntry
  \/ Finish

Spec == Init /\ [][Next]_vars

\* the consumer asks for more whenever the stream is idle and has not ended
Demand(size) ==
  /\ status = "open"
  /\ ~reading
  /\ states # <<>>
  /\ size > 0
  /\ pulls' = pulls + 1
  /\ read(size, states, reading)
  /\ demand' = IF calls' # calls THEN [asked |-> size, got |-> 0] ELSE demand
  /\ UNCHANGED <<args, status, filters, states, processed, unique, format, cb, out,
                 errors, delivered, results, heldAt, scopes>>

\* the stream with a consumer that keeps asking and a store that answers every
\* call with a page
NextLive ==
  \/ Construct
  \/ \E size \in Sizes : Demand(size)
  \/ \E result \in Results : ListOk(result)
  \/ ProcessEntry
  \/ Finish

\* the streams that are run to their end
LiveArgs ==
  {Args(GlobsSingle, EmptyObj, "object", TRUE, TRUE),
   Args(GlobsOverlap, DefaultOptions, "query", FALSE, TRUE),
   Args(GlobsTwoBuckets, DefaultOptions, "query", TRUE, TRUE)}

InitLive == \E a \in LiveArgs : Start(a)

SpecLive ==
  /\ InitLive
  /\ [][NextLive]_vars
  /\ WF_vars(\E size \in Sizes : Demand(size))
  /\ WF_vars(\E result \in Results : ListOk(result))
  /\ WF_vars(ProcessEntry)
  /\ WF_vars(Finish)

\* the caller assigns stream.format after construction
SetFormat ==
  /\ status = "open"
  /\ format \in formats
  /\ format' = "foo"
  /\ UNCHANGED <<args, status, filters, states, processed, unique, reading, pending, cb,
                 out, eos, errors, calls, delivered, results, pulls, heldAt, scopes,
                 demand>>

\* the streams whose format is assigned
FormatArgs ==
  {Args(GlobsSingle, EmptyObj, "object", FALSE, TRUE),
   Args(GlobsTwoBuckets, DefaultOptions, "query", TRUE, TRUE)}

InitFormat == \E a \in FormatArgs : Start(a)

NextFormat ==
  \/ Next
  \/ SetFormat

SpecFormat == InitFormat /\ [][NextFormat]_vars

\* construction alone, over every argument of CtorArgs
SpecCtor == InitCtor /\ [][Construct]_vars

(***************************************************************************)
(* Properties.                                                             *)
(***************************************************************************)

\* the chunks pushed for the object (Bucket, Key) of an entry
Yields(entry) ==
  {k \in 1..Len(out) : out[k].Bucket = entry.Bucket /\ out[k].Key = entry.Key}

\* the deliveries of the object of an entry
Deliveries(entry) == {i \in 1..Len(delivered) : delivered[i].entry = entry}

\* the key matches the glob of the scan state whose page delivered it
GlobHit(d) == MinimatchMatch(scopes[d.idx].match, d.entry.Key)

\* the key matches one of the negative patterns
FilterHit(k) ==
  \E i \in 1..Len(filters) : MinimatchMatch([filters[i] EXCEPT !.negate = FALSE], k)

Pass(d) == GlobHit(d) /\ ~FilterHit(d.entry.Key)

\* C1: at most one listing call is outstanding at any time: a Pull that arrives
\* while a call is in flight (or its page is being processed) starts no call, so
\* the calls issued are the pages fetched plus the one in flight, whatever the
\* number of Pulls.
C1_OneListingCall ==
  /\ Len(pending) <= 1
  /\ cb.active => pending = <<>>
  /\ Len(calls) = Len(results) + Len(pending)

\* a second Pull with positive demand arrived while the first call was in flight
C1_Witness ==
  /\ pulls = 2
  /\ heldAt = 0
  /\ results = <<>>
  /\ Len(pending) = 1
  /\ Len(calls) = 1

\* C2: with unique on and no listing failure, once the stream has ended every
\* listed object whose key matches any positive pattern and no negative pattern
\* has been yielded exactly once, also when several scan states list it. (Stated
\* for the objects that a scan state whose glob they match has listed.)
C2_AnyPositiveYieldedOnce ==
  (status = "open" /\ unique /\ errors = <<>> /\ eos >= 1) =>
    \A i \in 1..Len(delivered) :
      (GlobHit(delivered[i]) /\ ~FilterHit(delivered[i].entry.Key))
      => Cardinality(Yields(delivered[i].entry)) = 1

\* C3: with unique on, no two yielded chunks are the same (Bucket, Key), and an
\* object whose deliveries pass the match is yielded exactly once, however
\* often it is delivered.
C3_UniqueYieldsOnce ==
  unique =>
    /\ \A k, l \in 1..Len(out) :
         (out[k].Bucket = out[l].Bucket /\ out[k].Key = out[l].Key) => k = l
    /\ \A i \in 1..Len(delivered) :
         (Pass(delivered[i]) /\ \A j \in 1..(i - 1) : delivered[j].entry # delivered[i].entry)
         => Cardinality(Yields(delivered[i].entry)) = 1

\* an object delivered twice, passing both times, and yielded once
C3_Witness ==
  /\ unique
  /\ \E i, j \in 1..Len(delivered) :
       /\ i < j
       /\ delivered[i].entry = delivered[j].entry
       /\ Pass(delivered[i])
       /\ Pass(delivered[j])
       /\ Cardinality(Yields(delivered[i].entry)) = 1

\* C4: with unique off, every delivery that passes the filters and the scan
\* state's glob is yielded: an object is yielded as often as it was delivered
\* and passed.
C4_NotUniqueYieldsEach ==
  (status = "open" /\ ~unique) =>
    \A i \in 1..Len(delivered) :
      LET e == delivered[i].entry IN
      Cardinality(Yields(e)) = Cardinality({j \in Deliveries(e) : Pass(delivered[j])})

\* an object delivered twice, passing both times, and yielded twice
C4_Witness ==
  /\ status = "open"
  /\ ~unique
  /\ \E i, j \in 1..Len(delivered) :
       /\ i < j
       /\ delivered[i].entry = delivered[j].entry
       /\ Pass(delivered[i])
       /\ Pass(delivered[j])
       /\ Cardinality(Yields(delivered[i].entry)) = 2

\* C5: every yielded chunk has a key that matches no negative pattern and that
\* matches the glob of a scan state whose page delivered it.
C5_YieldedMatch ==
  \A k \in 1..Len(out) :
    /\ ~FilterHit(out[k].Key)
    /\ \E i \in 1..Len(delivered) :
         /\ delivered[i].entry.Bucket = out[k].Bucket
         /\ delivered[i].entry.Key = out[k].Key
         /\ GlobHit(delivered[i])

\* an entry that matches its scan state's glob and a negative pattern was
\* delivered and not yielded, while another entry was
C5_Witness ==
  /\ out # <<>>
  /\ \E i \in 1..Len(delivered) :
       /\ GlobHit(delivered[i])
       /\ FilterHit(delivered[i].entry.Key)
       /\ Yields(delivered[i].entry) = {}

\* C6: the first listing call of a scan state carries no marker, and a call that
\* follows a truncated result of the same scan state carries that result's
\* NextMarker if it has one, else the key of the last entry of that page.
C6_Marker ==
  \A k \in 1..Len(calls) :
    LET prev == {j \in 1..(k - 1) : calls[j].idx = calls[k].idx} IN
    IF prev = {} THEN calls[k].request.Marker = Null
    ELSE LET j == CHOOSE x \in prev : \A y \in prev : y <= x
             r == results[j].result
         IN /\ r.IsTruncated
            /\ calls[k].request.Marker =
                 (IF r.NextMarker # Null THEN r.NextMarker ELSE r.Contents[Len(r.Contents)])

\* a call that follows a truncated page of two entries without NextMarker
C6_Witness ==
  \E k \in 2..Len(calls) :
    /\ calls[k].idx = calls[k - 1].idx
    /\ results[k - 1].result.IsTruncated
    /\ results[k - 1].result.NextMarker = Null
    /\ Len(results[k - 1].result.Contents) = 2
    /\ calls[k].request.Marker = results[k - 1].result.Contents[2]

Failed == \E k \in 1..Len(results) : results[k].err # ""

\* C8: the step in which a listing call fails emits exactly one error, the value
\* the call failed with, and from then on, whatever Pulls follow, no listing call
\* is issued, no entry is yielded and no other error is emitted.
C8_FailureIsFinal ==
  [][ /\ (~Failed /\ Failed') =>
           /\ errors' = Append(errors, results'[Len(results')].err)
           /\ calls' = calls
           /\ out' = out
      /\ Failed =>
           /\ errors' = errors
           /\ calls' = calls
           /\ pending' = pending
           /\ out' = out ]_vars

\* a call failed and a Pull with positive demand came after the failure
C8_Witness ==
  /\ Failed
  /\ errors = <<"aws-error">>
  /\ heldAt = Len(results)
  /\ calls # <<>>
  /\ Len(calls) = Len(results)

\* the patterns given, as a list
GivenList(a) == IF a.globs.type = "array" THEN a.globs.items ELSE <<a.globs>>

Negated(glob) == glob.type = "string" /\ glob.text # <<>> /\ glob.text[1] = "!"

\* what the pattern itself says
OwnOptions(glob) ==
  IF glob.type = "string" THEN UrlToOptions(glob.text)
  ELSE IF glob.type = "object" THEN glob.obj
  ELSE EmptyObj

\* the pattern's field k, else the default's, else nothing
Resolved(a, glob, k) ==
  IF k \in DOMAIN OwnOptions(glob) THEN OwnOptions(glob)[k]
  ELSE IF k \in DOMAIN a.awsOptions THEN a.awsOptions[k]
  ELSE <<>>

Invalid(a) ==
  \/ ~a.s3
  \/ a.format \notin {"object", "query"}
  \/ a.globs.type \notin {"array", "string", "object"}
  \/ /\ a.globs.type \in {"array", "string", "object"}
     /\ \/ GivenList(a) = <<>>
        \/ \A i \in 1..Len(GivenList(a)) : Negated(GivenList(a)[i])
        \/ \E i \in 1..Len(GivenList(a)) :
             /\ ~Negated(GivenList(a)[i])
             /\ \/ Resolved(a, GivenList(a)[i], "Key") = <<>>
                \/ Resolved(a, GivenList(a)[i], "Bucket") = <<>>

\* C9: construction throws, and no stream is created, for an empty pattern
\* list, a list of negated patterns only, an input that is no list, string or
\* object, a search pattern whose bucket or key is empty after the defaults are
\* merged in, an unknown format, and a listing client without listObjects.
C9_InvalidThrows ==
  (status # "new" /\ Invalid(args)) =>
    (status = "threw" /\ states = <<>> /\ filters = <<>>)

\* a search pattern without bucket (and no default bucket) made the constructor
\* throw, all else being valid
C9_Witness ==
  /\ status = "threw"
  /\ args.s3
  /\ args.format = "object"
  /\ args.globs = Obj([Key |-> PatAB])
  /\ args.awsOptions = EmptyObj

\* the scan states of the patterns, in pattern order then branch order
RECURSIVE ExpectedStates(_, _)
ExpectedStates(a, list) ==
  IF list = <<>> THEN <<>>
  ELSE (IF Negated(list[1]) THEN <<>>
        ELSE LET opts == Assign(a.awsOptions, OwnOptions(list[1]))
                 glob == Minimatch(opts.Key)
             IN [b \in 1..Len(glob.set) |->
                   [match |-> glob, awsOptions |-> opts,
                    prefix |-> prefix(glob.set[b]), marker |-> Null]])
       \o ExpectedStates(a, Tail(list))

\* C10: for valid arguments with at least one positive pattern construction
\* succeeds and this.states is not empty: one scan state per branch of each
\* positive pattern, in pattern then branch order, each with its pattern's glob
\* and parameters and no marker; negated patterns give none.
C10_ValidConstructs ==
  (status # "new" /\ ~Invalid(args)) =>
    /\ status = "open"
    /\ states # <<>>
    /\ states = ExpectedStates(args, GivenList(args))

\* a negated pattern, a one-branch pattern and a two-branch pattern gave three
\* scan states
C10_Witness ==
  /\ status = "open"
  /\ Len(GivenList(args)) = 3
  /\ Negated(GivenList(args)[1])
  /\ Len(states) = 3
  /\ states[1].prefix = <<"a">>
  /\ states[2].prefix = <<"a">>
  /\ states[3].prefix = <<"b">>
  /\ states[1].awsOptions.Bucket = BucketX
  /\ states[3].awsOptions.Bucket = BucketY

\* C11: a chunk is pushed only by the processing of a listed entry. In query
\* format it is a new record: the request parameters of the scan state whose
\* page listed the entry, with Key set to the entry's key (the pattern's own
\* Key is overridden, every other parameter is kept). In object format it is
\* the listing entry itself (carrying the bucket of the request).
C11_FormatShape ==
  [][ out' # out =>
        LET d == delivered'[Len(delivered')]
            params == scopes[d.idx].awsOptions
            chunk == out'[Len(out')]
        IN /\ Len(delivered') = Len(delivered) + 1
           /\ Len(out') = Len(out) + 1
           /\ SubSeq(out', 1, Len(out)) = out
           /\ IF format = "query"
              THEN /\ DOMAIN chunk = DOMAIN params \cup {"Key"}
                   /\ chunk.Key = d.entry.Key
                   /\ \A k \in DOMAIN params \ {"Key"} : chunk[k] = params[k]
              ELSE chunk = d.entry ]_vars

\* in query format an entry b/c listed for the pattern b/* of bucket y, with the
\* default parameter Foo, was yielded as {Bucket: y, Foo: 1, Key: b/c}
C11_Witness ==
  /\ format = "query"
  /\ \E k \in 1..Len(out) :
       out[k] = [Bucket |-> BucketY, Foo |-> <<"1">>, Key |-> <<"b", "/", "c">>]
  /\ \E i \in 1..Len(delivered) :
       /\ delivered[i].entry = [Bucket |-> BucketY, Key |-> <<"b", "/", "c">>]
       /\ scopes[delivered[i].idx].awsOptions.Key = PatB

\* the number of leading literal parts of a set
LitRun(set) ==
  CHOOSE n \in 0..Len(set) :
    /\ \A j \in 1..n : set[j].lit
    /\ n < Len(set) => ~set[n + 1].lit

\* p is the parts 1..n of the set, separated by '/'
IsLeadingRun(p, set, n) ==
  IF n = 0 THEN p = <<>>
  ELSE Split(p, "/") = [j \in 1..n |-> set[j].text]

\* C12: the prefix of a match set is its leading run of literal parts, up to and
\* excluding the first part that is not a literal, joined by '/': all the parts
\* when all are literal, the empty string when the first part is a wildcard.
C12_PrefixIsLeadingLiterals ==
  \A i \in 1..Len(states) :
    \A b \in 1..Len(states[i].match.set) :
      LET set == states[i].match.set[b] IN
      /\ IsLeadingRun(prefix(set), set, LitRun(set))
      /\ (\A j \in 1..Len(set) : set[j].lit) =>
           prefix(set) = Join([j \in 1..Len(set) |-> set[j].text], "/")
      /\ ~set[1].lit => prefix(set) = <<>>

\* the constructor compiled a pattern whose branches are a/b/c (all literal,
\* prefix a/b/c) and */c (leading wildcard, prefix '')
C12_Witness ==
  /\ status = "open"
  /\ Len(states) = 2
  /\ states[1].match.pattern = PatBraceStar
  /\ states[1].prefix = <<"a", "/", "b", "/", "c">>
  /\ states[2].prefix = <<>>
  /\ LitRun(states[1].match.set[1]) = 3
  /\ LitRun(states[1].match.set[2]) = 0

\* C13: prefixes of a compiled glob has one prefix for each branch of the glob's
\* match set, the prefix of that branch, in branch order; a glob without
\* alternation has exactly one.
C13_PrefixesPerBranch ==
  \A i \in 1..Len(states) :
    LET m == states[i].match
        ps == prefixes(m)
    IN /\ Len(ps) = Len(m.set)
       /\ \A b \in 1..Len(m.set) : ps[b] = prefix(m.set[b])
       /\ IndexOf(m.pattern, "{", 1) = 0 => Len(ps) = 1
       /\ \E b \in 1..Len(ps) : states[i].prefix = ps[b]

\* the constructor compiled a glob with two branches, of prefixes a and b, and
\* a glob without alternation
C13_Witness ==
  /\ status = "open"
  /\ \E i \in 1..Len(states) :
       /\ Len(states[i].match.set) = 2
       /\ prefixes(states[i].match) = << <<"a">>, <<"b">> >>
  /\ \E i \in 1..Len(states) :
       /\ IndexOf(states[i].match.pattern, "{", 1) = 0
       /\ Len(prefixes(states[i].match)) = 1

\* C14: a Pull of size zero or less issues no listing call, yields nothing and
\* leaves this.states, the dedup index and this._reading as they are; and a
\* listing call is issued only by a Pull of positive size, or by the callback of
\* a page fetched for such a Pull, and asks for one key at least.
C14_DemandDriven ==
  [][ /\ \A size \in Sizes :
           (size <= 0 /\ Pull(size)) =>
             /\ calls' = calls
             /\ pending' = pending
             /\ out' = out
             /\ delivered' = delivered
             /\ states' = states
             /\ processed' = processed
             /\ reading' = reading
      /\ calls' # calls =>
           /\ calls'[Len(calls')].request.MaxKeys >= 1
           /\ \/ \E size \in Sizes : size > 0 /\ Pull(size)
              \/ /\ pulls' = pulls
                 /\ cb.active
                 /\ demand.asked > 0 ]_vars

\* two Pulls were made on the open stream and nothing happened: no call, no
\* end-of-sequence, every scan state still there
C14_Witness ==
  /\ status = "open"
  /\ pulls = 2
  /\ calls = <<>>
  /\ states = scopes
  /\ ~reading
  /\ eos = 0
  /\ out = <<>>

\* the entries of the pages called back so far, in call order then page order,
\* up to the entry the running callback has reached
RECURSIVE Listed(_)
Listed(k) ==
  IF k = 0 THEN <<>>
  ELSE LET page == results[k].result.Contents
           n == IF cb.active /\ k = Len(results) THEN cb.i - 1 ELSE Len(page)
       IN Listed(k - 1) \o
          [j \in 1..n |-> [entry |-> [Key |-> page[j], Bucket |-> calls[k].request.Bucket],
                           idx |-> calls[k].idx]]

\* the delivery passes processing: it matches, and with unique on it is the
\* first delivery of its object
Passing(i) ==
  /\ Pass(delivered[i])
  /\ unique => \A j \in 1..(i - 1) : delivered[j].entry # delivered[i].entry

\* the chunk a delivery is yielded as
Shape(d) ==
  IF format = "query"
  THEN [k \in DOMAIN scopes[d.idx].awsOptions \cup {"Key"} |->
          IF k = "Key" THEN d.entry.Key ELSE scopes[d.idx].awsOptions[k]]
  ELSE d.entry

RECURSIVE YieldedOf(_)
YieldedOf(i) ==
  IF i = 0 THEN <<>>
  ELSE YieldedOf(i - 1) \o (IF Passing(i) THEN <<Shape(delivered[i])>> ELSE <<>>)

\* C15: the chunks yielded are, in this order, the entries that pass processing
\* of the first page called back, in the order of the page, then those of the
\* second page, and so on; and the entries of two scan states do not interleave:
\* once an entry of another scan state is listed, no entry of the former is.
C15_YieldOrder ==
  /\ delivered = Listed(Len(results))
  /\ out = YieldedOf(Len(delivered))
  /\ \A i, j, k \in 1..Len(delivered) :
       (i < j /\ j < k /\ delivered[i].idx = delivered[k].idx)
       => delivered[j].idx = delivered[i].idx

\* chunks of two pages of two scan states were yielded, an entry listed
\* between them having been held back
C15_Witness ==
  /\ Len(out) >= 2
  /\ \E i, j, k \in 1..Len(delivered) :
       /\ i < j /\ j < k
       /\ Passing(i)
       /\ ~Passing(j)
       /\ Passing(k)
       /\ delivered[i].idx # delivered[k].idx

\* C16, as claimed: whenever no listing call is outstanding and no result is
\* being processed, this._reading is clear (it is cleared after a failure as
\* after a success).
C16_FlagClearWhenIdle ==
  (pending = <<>> /\ ~cb.active) => ~reading

\* C16, amended: this._reading is set while a listing call is outstanding and
\* while its page is processed, and it is cleared after a successful result; a
\* failure leaves it set. It is set exactly when a call is outstanding, a page
\* is being processed, or a call has failed.
C16_FlagHeldWhileBusyOrFailed ==
  reading <=> (pending # <<>> \/ cb.active \/ Failed)

\* a page was fetched and processed, a later call failed, and the flag is
\* still set with nothing outstanding
C16_Witness ==
  /\ Len(results) >= 2
  /\ results[1].err = ""
  /\ results[Len(results)].err # ""
  /\ pending = <<>>
  /\ ~cb.active
  /\ reading

\* C17: every listing call is made for the last of this.states, with that scan
\* state's prefix and bucket: the first call is for the scan state constructed
\* last, the next call is for the same scan state after a truncated page and for
\* the one constructed just before after a complete page, so the calls of one
\* scan state are consecutive and scan states are taken in reverse order.
C17_LastScanStateFirst ==
  /\ \A k \in 1..Len(calls) :
       /\ calls[k].idx \in 1..Len(scopes)
       /\ calls[k].request.Prefix = scopes[calls[k].idx].prefix
       /\ calls[k].request.Bucket = scopes[calls[k].idx].awsOptions.Bucket
  /\ calls # <<>> => calls[1].idx = Len(scopes)
  /\ \A k \in 1..(Len(calls) - 1) :
       calls[k + 1].idx =
         (IF results[k].result.IsTruncated THEN calls[k].idx ELSE calls[k].idx - 1)
  /\ pending # <<>> => Head(pending).idx = Len(states)
  /\ \A j, k \in 1..Len(calls) : j < k => calls[j].idx >= calls[k].idx

\* of three scan states, the last got two calls and then the second got one
C17_Witness ==
  /\ Len(scopes) = 3
  /\ Len(calls) >= 3
  /\ calls[1].idx = 3
  /\ calls[2].idx = 3
  /\ calls[3].idx = 2
  /\ Len(states) = 2

\* C18: the MaxKeys of a listing call is what is left of the size of the Pull
\* that caused it: that size less the entries listed by the earlier pages of the
\* same Pull. It is 1 at least and the size at most, and, a page holding at
\* most MaxKeys entries, the entries listed for one Pull never exceed its size.
C18_MaxKeysIsRemainingDemand ==
  /\ \A k \in 1..Len(calls) : calls[k].request.MaxKeys >= 1
  /\ demand.got <= demand.asked
  /\ pending # <<>> =>
       /\ Head(pending).request = calls[Len(calls)].request
       /\ Head(pending).request.MaxKeys = demand.asked - demand.got
       /\ Head(pending).request.MaxKeys <= demand.asked
  /\ cb.active =>
       /\ cb.call.request.MaxKeys = demand.asked - demand.got
       /\ Len(cb.result.Contents) <= cb.call.request.MaxKeys

\* a Pull of size 2 got a page of one entry and its second call asks for one
C18_Witness ==
  /\ demand = [asked |-> 2, got |-> 1]
  /\ Len(pending) = 1
  /\ Head(pending).request.MaxKeys = 1
  /\ Len(calls) = 2
  /\ calls[1].request.MaxKeys = 2

\* C19: when the callback of a successful page ends, the demand is the size of
\* its call less the number of entries of the page, yielded or not. If
\* this.states is then empty the end-of-sequence signal is pushed and no call
\* is issued; else if the demand left is positive the next call is issued at
\* once, for that demand; else the stream is idle: no call, flag clear.
C19_ContinueWhileDemand ==
  [][ (cb.active /\ ~cb'.active) =>
        LET left == cb.call.request.MaxKeys - Len(cb.result.Contents) IN
        IF states' = <<>>
        THEN /\ eos' = eos + 1
             /\ calls' = calls
             /\ pending' = <<>>
             /\ ~reading'
        ELSE IF left > 0
        THEN /\ Len(calls') = Len(calls) + 1
             /\ calls'[Len(calls')].request.MaxKeys = left
             /\ Len(pending') = 1
             /\ reading'
             /\ eos' = eos
        ELSE /\ calls' = calls
             /\ pending' = <<>>
             /\ ~reading'
             /\ eos' = eos ]_vars

\* one Pull of size 2 got two pages of one entry each, one of the entries was
\* not yielded, and the stream is idle with a scan state left
C19_Witness ==
  /\ pulls = 1
  /\ demand = [asked |-> 2, got |-> 2]
  /\ Len(calls) = 2
  /\ Len(delivered) = 2
  /\ Len(out) = 1
  /\ ~reading
  /\ states # <<>>
  /\ eos = 0

\* C20: a Pull made while this._reading is set changes nothing: not this.states
\* nor a marker, not the dedup index, not the flag; it yields nothing, issues no
\* call, and the size it asks for is not added to the call in flight or to the
\* demand that remains.
C20_PullWhileHeldNoOp ==
  [][ (reading /\ pulls' # pulls) =>
        /\ states' = states
        /\ processed' = processed
        /\ reading' = reading
        /\ pending' = pending
        /\ cb' = cb
        /\ calls' = calls
        /\ out' = out
        /\ eos' = eos
        /\ errors' = errors
        /\ delivered' = delivered
        /\ demand' = demand ]_vars

\* a second Pull of positive size arrived after the first page came back; the
\* first Pull, of size 2, went on with a call for the one entry it lacked
C20_Witness ==
  /\ pulls = 2
  /\ heldAt = 1
  /\ Len(results) = 1
  /\ Len(pending) = 1
  /\ Head(pending).size = 1
  /\ demand = [asked |-> 2, got |-> 1]

\* the first delivery of the object of delivery i
FirstDelivery(i) ==
  CHOOSE j \in 1..i :
    /\ delivered[j].entry = delivered[i].entry
    /\ \A l \in 1..(j - 1) : delivered[l].entry # delivered[i].entry

C22_UnknownFormat ==
  [][ (status = "open" /\ format \notin formats) =>
        /\ out' = out
        /\ delivered' # delivered =>
             /\ Len(delivered') = Len(delivered) + 1
             /\ \A n \in {Len(delivered) + 1} :
                  errors' = (IF Passing(n)'
                             THEN Append(errors, "UNKNOWN_FORMAT")
                             ELSE errors)
        /\ (cb.active /\ ~cb'.active) =>
             states' =
               (IF cb.result.IsTruncated
                THEN [states EXCEPT ![Len(states)].marker =
                        IF cb.result.NextMarker # Null THEN cb.result.NextMarker
                        ELSE cb.result.Contents[Len(cb.result.Contents)]]
                ELSE SubSeq(states, 1, Len(states) - 1)) ]_vars

\* format was set to an unknown value, three entries were listed, the two that
\* pass gave one error each, nothing was yielded and both scan states were
\* retired
C22_Witness ==
  /\ format = "foo"
  /\ Len(scopes) = 2
  /\ Len(delivered) = 3
  /\ errors = <<"UNKNOWN_FORMAT", "UNKNOWN_FORMAT">>
  /\ out = <<>>
  /\ states = <<>>
  /\ eos >= 1

C24_IndexMonotone ==
  [][ /\ processed \subseteq processed'
      /\ processed' # processed =>
           /\ cb.active
           /\ Len(delivered') = Len(delivered) + 1
           /\ processed' = processed \cup
                {delivered'[Len(delivered')].entry.Bucket \o <<"/">> \o
                 delivered'[Len(delivered')].entry.Key} ]_vars

\* the stream has ended after two Pulls with three keys in its index
C24_Witness ==
  /\ Cardinality(processed) = 3
  /\ pulls = 2
  /\ states = <<>>
  /\ eos >= 1

\* C25: after construction this.states never grows and is never reordered: a
\* step changes it only at the end of the callback of a successful page, and
\* then either only the marker of its last scan state (truncated page) or by
\* removing its last scan state (complete page); the other scan states keep
\* their prefix, glob, parameters and marker.
C25_StatesOnlyShrink ==
  [][ (status = "open" /\ states' # states) =>
        /\ cb.active
        /\ ~cb'.active
        /\ IF cb.result.IsTruncated
           THEN /\ Len(states') = Len(states)
                /\ \A i \in 1..(Len(states) - 1) : states'[i] = states[i]
                /\ states' = [states EXCEPT ![Len(states)].marker =
                                 states'[Len(states)].marker]
           ELSE states' = SubSeq(states, 1, Len(states) - 1) ]_vars

\* of three scan states the last was removed and the second has a marker,
\* the first being as constructed
C25_Witness ==
  /\ Len(scopes) = 3
  /\ Len(states) = 2
  /\ states[1] = scopes[1]
  /\ states[2].marker # Null
  /\ states[2] = [scopes[2] EXCEPT !.marker = states[2].marker]

\* C26: from the moment a listing call is issued until its callback has run,
\* this.states, the dedup index and the output do not change; so when the call
\* fails they are as they were when it was issued, and they stay so: nothing is
\* yielded for the call.
C26_FailureLeavesState ==
  [][ (pending # <<>> \/ Failed \/ Failed') =>
        /\ states' = states
        /\ processed' = processed
        /\ out' = out
        /\ delivered' = delivered ]_vars

\* a page was processed, the marker of its scan state set, and the next call
\* failed: the scan states, the index and the output are those of the first
\* page
C26_Witness ==
  /\ Len(results) = 2
  /\ results[1].err = ""
  /\ results[1].result.IsTruncated
  /\ results[2].err # ""
  /\ Len(states) = Len(scopes)
  /\ states[Len(states)].marker # Null
  /\ Cardinality(processed) = Len(results[1].result.Contents)
  /\ processed # {}
  /\ Len(delivered) = Len(results[1].result.Contents)

\* C27: when no listing call fails, every scan state has finitely many pages
\* and the consumer asks for a positive number of entries whenever the stream
\* is idle, the stream comes to retire every scan state and to push the
\* end-of-sequence signal, also when the pages of a Pull yield nothing.
C27_Terminates ==
  (status = "open") ~> (states = <<>> /\ eos = 1 /\ ~reading /\ pending = <<>>)

\* the stream ended after several Pulls, every listed entry having been
\* filtered out or deduplicated
C27_Witness ==
  /\ states = <<>>
  /\ eos = 1
  /\ out = <<>>
  /\ Len(delivered) >= 2
  /\ pulls >= 2
  /\ errors = <<>>

\* the keys of one to MaxSegments segments taken from a, b, c and cc
KeySpace ==
  {Join(p, "/") :
     p \in UNION {[1..n -> {<<"a">>, <<"b">>, <<"c">>, <<"c", "c">>}] : n \in 1..MaxSegments}}

\* C28: a key that a branch of a compiled glob matches segment by segment
\* begins with the prefix of that branch; and each branch has a scan state that
\* lists by that prefix, so that no key a branch matches is outside the
\* listings.
C28_MatchedKeysStartWithPrefix ==
  \A i \in 1..Len(states) :
    \A b \in 1..Len(states[i].match.set) :
      LET set == states[i].match.set[b] IN
      /\ \A k \in KeySpace :
           MatchOne(Split(k, "/"), set) => StartsWith(k, prefix(set))
      /\ \E j \in 1..Len(states) :
           /\ states[j].match = states[i].match
           /\ states[j].prefix = prefix(set)

\* the glob a/*/c was compiled: it matches a/b/c and a/cc/c, which begin with
\* its prefix a, and not a/c
C28_Witness ==
  /\ status = "open"
  /\ Len(states) = 1
  /\ states[1].match.pattern = PatMid
  /\ states[1].prefix = <<"a">>
  /\ <<"a", "/", "b", "/", "c">> \in KeySpace
  /\ MatchOne(Split(<<"a", "/", "b", "/", "c">>, "/"), states[1].match.set[1])
  /\ MatchOne(Split(<<"a", "/", "c", "c", "/", "c">>, "/"), states[1].match.set[1])
  /\ ~MatchOne(Split(<<"a", "/", "c">>, "/"), states[1].match.set[1])

====
